---- MODULE Spec2Model ----
(***************************************************************************)
(* EasySync: the Anaplan client library (anaplan/authentication.py,        *)
(* anaplan/dictionary.py) and the part of run.py that drives it.           *)
(*                                                                         *)
(* These specifications share the variables below:                         *)
(*   Spec        one AnaplanAuth and one AnaplanModel used by one caller;  *)
(*               every library call is one step, the clock ticks between   *)
(*               calls;                                                    *)
(*   SpecOAuth   AnaplanAuth('oauth_refresh').get_token() taken apart at   *)
(*               its suspension points (the network call, the file write), *)
(*               called from one or two call sites of one process;         *)
(*   SpecUpload  AnaplanModel.upload() request by request;                 *)
(*   SpecTasks   AnaplanModel.run(), monitor() and status() on one action, *)
(*               request by request, the server changing its task list;    *)
(*   SpecAuth    one AnaplanAuth on its own: get_token() and refresh();    *)
(*   SpecPoll    run.py from conn.run to the log file (SpecPollFair: the   *)
(*               same, run to its end);                                    *)
(*   SpecContent the chunk loop of upload() on the bytes of the file.      *)
(***************************************************************************)
EXTENDS Integers, Sequences, FiniteSets, TLC

VARIABLES
    \* ---- AnaplanAuth
    via,              \* self.via
    token,            \* self._token
    expires_at,       \* self._expires_at
    \* ---- AnaplanModel
    conn,             \* the AnaplanModel instance (made = FALSE before construction)
    \* ---- run.py
    conn_expire_time, \* run.py's copy of conn.expires_at
    \* ---- the clock
    now,              \* datetime.utcnow(), in minutes
    utc_offset,       \* datetime.now() - datetime.utcnow(), in minutes
    \* ---- the authentication servers
    issued,           \* number of token values issued so far
    recorded,         \* token value -> the expiry the client recorded for it
    \* ---- the OAuth server, the env file and the process environment
    server_secret,    \* the one refresh secret the server still accepts
    store,            \* refresh_token in the env file
    environ,          \* os.environ['refresh_token'] (Unset before load_dotenv)
    \* ---- what the last calls did
    last_call,        \* the get_token()/refresh() call made last at this instant
    last_request,     \* the requests of the operation made last at this instant
    \* ---- SpecOAuth: get_token() of each call site, step by step
    pc,               \* call site -> position in get_token()/oauth_refresh()
    body,             \* call site -> refresh_token of the request body
    reply,            \* call site -> the server's response j
    submitted,        \* the refresh secrets submitted so far, in order
    \* ---- SpecUpload: upload(), step by step
    file,             \* the local file: the lengths of its lines, in characters
    chunk_size,       \* self.chunk_size
    upc,              \* position in upload()
    unread,           \* the lines f has not read yet
    chunked_data,     \* lines returned by the last f.readlines(chunk_size)
    chunk_num,        \* chunk_num
    calls,            \* the requests upload() has sent, in order
    \* ---- SpecTasks: run(), monitor() and status() on one action
    action_id,        \* the action id passed to run/monitor/status (its digits)
    self_url,         \* self.url
    tasks,            \* the server's task list of the action, in its order
    tpc,              \* position in monitor()
    polling,          \* the operation that called monitor: "monitor" or "status"
    listed,           \* req['tasks'] of monitor's first request
    http,             \* the request sent last by run/monitor
    result,           \* what the operation that ended last returned or raised
    \* ---- SpecPoll: run.py from conn.run to the log file
    rpc,              \* position in run.py
    poll_status,      \* status (run.py's local)
    own_task,         \* taskId of the task conn.run created (0: none)
    \* ---- SpecContent: the chunk loop of upload() on the file's content
    content,          \* the bytes of the local file
    text,             \* the lines f has not read yet, as text
    chunk,            \* chunked_data, as text
    bodies,           \* the bodies of the PUT calls, by chunk_num
    cpc               \* position in the chunk loop

authVars   == <<via, token, expires_at>>
clockVars  == <<now, utc_offset>>
serverVars == <<issued, recorded>>
oauthVars  == <<server_secret, store, environ>>
siteVars   == <<pc, body, reply, submitted>>
uploadVars == <<file, chunk_size, upc, unread, chunked_data, chunk_num, calls>>
taskVars   == <<action_id, self_url, tasks, tpc, polling, listed, http, result>>
pollVars   == <<rpc, poll_status, own_task>>
contentVars == <<content, text, chunk, bodies, cpc>>
vars == <<via, token, expires_at, conn, conn_expire_time, now, utc_offset,
          issued, recorded, server_secret, store, environ, last_call,
          last_request, pc, body, reply, submitted, file, chunk_size, upc,
          unread, chunked_data, chunk_num, calls, action_id, self_url, tasks,
          tpc, polling, listed, http, result, rpc, poll_status, own_task,
          content, text, chunk, bodies, cpc>>

----------------------------------------------------------------------------
\* Bounds of the model.

\* The clock stops here (minutes).
MaxTime == 40
\* Token values the authentication server issues.
MaxTokens == 2
\* get_token() calls that reach the OAuth server (SpecOAuth).
MaxPosts == 3
\* Lines of the uploaded file, characters of a line, and the chunk bound.
MaxLines == 4
MaxLineLen == 3
MaxChunk == 5

\* Program constants.

\* timedelta(minutes=35)
Validity == 35
\* self._expires_at = None
NoTime == -1
\* os.environ.get('refresh_token') before any load_dotenv
Unset == 0

\* The clock advances in steps of these many minutes.
Steps == {5, 10}
\* Offsets of the local clock from UTC (minutes).
Offsets == {-60, 0, 60}

----------------------------------------------------------------------------
\* Values.

Prefix == "AnaplanAuthToken "
InvalidMethodText ==
    "Invalid authentication method; please select basic, certificate or oauth type"

\* Python's None, 'AnaplanAuthToken ' + value, and the message get_token returns
\* for an unknown via.
NoneToken == [kind |-> "None", value |-> 0]
Bearer(v) == [kind |-> Prefix, value |-> v]
InvalidMethod == [kind |-> InvalidMethodText, value |-> 0]
IsBearer(t) == t.kind = Prefix

Vias == {"basic", "certificate", "oauth_refresh", "oauth"}
Supported == {"basic", "certificate", "oauth_refresh"}

\* Responses of POST /token/authenticate: only SUCCESS carries tokenInfo.
ExchangeStatuses == {"SUCCESS", "FAILURE_BAD_CREDENTIAL", "FAILURE_GENERIC"}
\* statusMessage of GET /token/validate.
ValidationMessages == {"Token validated", "Token invalid"}
\* Responses of POST /oauth/token.
OAuthReplies == {"tokens", "error"}

NoCall == [outcome |-> "none", result |-> NoneToken, at |-> 0,
           status |-> "none", message |-> "none", validated |-> FALSE]
NoRequest == [op |-> "none", auth |-> {}, at |-> 0]

----------------------------------------------------------------------------
\* AnaplanAuth (authentication.py).

\* The response j of POST /token/authenticate (basic: get_token, certificate:
\* cert_token). tokenValue = 0 stands for a response without tokenInfo.
cert_token(status) ==
    [status |-> status,
     tokenValue |-> IF status = "SUCCESS" THEN issued + 1 ELSE 0]

\* validate with `return` in the place of `raise SystemError()`.
validate_returns(j, message) ==
    IF j.status = "FAILURE_BAD_CREDENTIAL" \/ j.tokenValue = 0
    THEN [raised |-> "no", value |-> NoneToken, validated |-> FALSE]
    ELSE IF message = "Token validated"
    THEN [raised |-> "no", value |-> Bearer(j.tokenValue), validated |-> TRUE]
    ELSE [raised |-> "no", value |-> NoneToken, validated |-> TRUE]

\* validate returning tokenInfo.tokenValue as the server sent it.
validate_unprefixed(j, message) ==
    IF j.status = "FAILURE_BAD_CREDENTIAL"
    THEN [raised |-> "SystemError", value |-> NoneToken, validated |-> FALSE]
    ELSE IF j.tokenValue = 0
    THEN [raised |-> "KeyError", value |-> NoneToken, validated |-> FALSE]
    ELSE IF message = "Token validated"
    THEN [raised |-> "no", value |-> [kind |-> "", value |-> j.tokenValue],
          validated |-> TRUE]
    ELSE [raised |-> "no", value |-> NoneToken, validated |-> TRUE]

\* validate(token): SystemError on FAILURE_BAD_CREDENTIAL, KeyError when the
\* response has no tokenInfo, the bearer when the validation endpoint answers
\* 'Token validated', and otherwise the end of the function is reached: None.
\* validated tells whether GET /token/validate was sent.
validate(j, message) ==
    IF j.status = "FAILURE_BAD_CREDENTIAL"
    THEN [raised |-> "SystemError", value |-> NoneToken, validated |-> FALSE]
    ELSE IF j.tokenValue = 0
    THEN [raised |-> "KeyError", value |-> NoneToken, validated |-> FALSE]
    ELSE IF message = "Token validated"
    THEN [raised |-> "no", value |-> Bearer(j.tokenValue), validated |-> TRUE]
    ELSE [raised |-> "no", value |-> NoneToken, validated |-> TRUE]

\* load_dotenv(file_env): override=False, a variable the process environment
\* already holds keeps its value.
load_dotenv(env, st) == IF env = Unset THEN st ELSE env

\* oauth_refresh returning j without the set_key call.
set_key_skipped(st, new_refresh_token) == st

\* set_key(file_env, 'refresh_token', new_refresh_token): the env file is
\* rewritten; os.environ is not touched.
set_key(st, new_refresh_token) == new_refresh_token

\* The server's answer to POST /oauth/token with grant_type refresh_token. It
\* accepts only the secret it issued last and replaces it on use; an error
\* response carries neither refresh_token nor access_token (Unset, 0).
oauth_token(secret, o) ==
    IF o = "tokens" /\ secret = server_secret
    THEN [refresh_token |-> server_secret + 1, access_token |-> issued + 1]
    ELSE [refresh_token |-> Unset, access_token |-> 0]

\* What the server may answer while the model's bounds allow a new issue.
OAuthAnswer(secret, o) ==
    o = "tokens" => secret = server_secret /\ issued < MaxTokens

\* oauth_refresh(file_env) as one step: load, post, persist, return j.
oauth_refresh(o) ==
    LET env == load_dotenv(environ, store)
        j   == oauth_token(env, o)
    IN  IF j.refresh_token = Unset
        THEN [raised |-> "KeyError", j |-> j, environ |-> env, store |-> store]
        ELSE [raised |-> "no", j |-> j, environ |-> env,
              store |-> set_key(store, j.refresh_token)]

\* get_token(): what the call raises or returns, and the fields it leaves.
\*   status   the exchange status (basic, certificate)
\*   message  the validation statusMessage (basic, certificate)
\*   o        the OAuth server's answer (oauth_refresh)
get_token(status, message, o) ==
    IF via \in {"basic", "certificate"}
    THEN LET v == validate(cert_token(status), message)
         IN  IF v.raised # "no"
             THEN [raised |-> v.raised, result |-> NoneToken, token |-> token,
                   expires_at |-> expires_at, validated |-> v.validated,
                   environ |-> environ, store |-> store]
             ELSE [raised |-> "no", result |-> v.value, token |-> v.value,
                   expires_at |-> now + Validity, validated |-> v.validated,
                   environ |-> environ, store |-> store]
    ELSE IF via = "oauth_refresh"
    THEN LET r == oauth_refresh(o)
         IN  IF r.raised # "no"
             THEN [raised |-> r.raised, result |-> NoneToken, token |-> token,
                   expires_at |-> expires_at, validated |-> FALSE,
                   environ |-> r.environ, store |-> r.store]
             ELSE [raised |-> "no", result |-> Bearer(r.j.access_token),
                   token |-> Bearer(r.j.access_token),
                   expires_at |-> now + Validity, validated |-> FALSE,
                   environ |-> r.environ, store |-> r.store]
    ELSE [raised |-> "no", result |-> InvalidMethod, token |-> token,
          expires_at |-> expires_at, validated |-> FALSE,
          environ |-> environ, store |-> store]

\* The inputs of one get_token() call that the servers can produce.
Answers(status, message, o) ==
    /\ status \in ExchangeStatuses
    /\ message \in ValidationMessages
    /\ o \in OAuthReplies
    /\ via \in {"basic", "certificate"} =>
          /\ o = "error"
          /\ status = "SUCCESS" => issued < MaxTokens
          /\ status # "SUCCESS" => message = "Token invalid"
    /\ via = "oauth_refresh" =>
          /\ status = "SUCCESS" /\ message = "Token validated"
          /\ OAuthAnswer(load_dotenv(environ, store), o)
    /\ via \notin Supported =>
          status = "SUCCESS" /\ message = "Token validated" /\ o = "error"

\* The effect of login.get_token() on AnaplanAuth, the servers, the env file
\* and the environment; g is get_token(status, message, o).
LoginGetToken(status, message, o, g) ==
    /\ token' = g.token
    /\ expires_at' = g.expires_at
    /\ environ' = g.environ
    /\ store' = g.store
    /\ issued' = IF \/ via \in {"basic", "certificate"} /\ status = "SUCCESS"
                    \/ via = "oauth_refresh" /\ g.raised = "no"
                 THEN issued + 1 ELSE issued
    /\ server_secret' = IF via = "oauth_refresh" /\ g.raised = "no"
                        THEN server_secret + 1 ELSE server_secret
    /\ recorded' = IF g.raised = "no" /\ IsBearer(g.result)
                   THEN [recorded EXCEPT ![g.result.value] = g.expires_at]
                   ELSE recorded
    /\ last_call' = [outcome |-> IF g.raised = "no" THEN "returned" ELSE "raised",
                     result |-> g.result, at |-> now,
                     status |-> IF via \in {"basic", "certificate"}
                                THEN status ELSE "none",
                     message |-> IF g.validated THEN message ELSE "none",
                     validated |-> g.validated]

----------------------------------------------------------------------------
\* AnaplanModel (dictionary.py) and the expiry check of run.py.

Headers == {"header", "task_header", "json_header", "file_header"}

\* The operations and the header dictionaries their requests are built from.
MetadataOps == {"imports", "actions", "processes", "files", "line_items", "views"}
Ops == MetadataOps \cup
       {"run", "monitor", "status", "read_view", "write_cells", "upload"}
HeadersOf(op) ==
    IF op \in MetadataOps THEN {"header"}
    ELSE IF op \in {"run", "monitor", "status"} THEN {"task_header"}
    ELSE IF op \in {"read_view", "write_cells"} THEN {"json_header"}
    ELSE {"task_header", "file_header"}

NoConn == [made |-> FALSE, token_value |-> NoneToken, expires_at |-> NoTime,
           header |-> NoneToken, task_header |-> NoneToken,
           json_header |-> NoneToken, file_header |-> NoneToken]

\* AnaplanModel.__init__ after login.get_token() returned: the token is copied
\* into the four header dictionaries.
init_model(g) ==
    [made |-> TRUE, token_value |-> g.result, expires_at |-> g.expires_at,
     header |-> g.result, task_header |-> g.result,
     json_header |-> g.result, file_header |-> g.result]

\* AnaplanModel.get_token after login.get_token() returned: _token_value and
\* expires_at are replaced, the header dictionaries are left as they were.
model_get_token(c, g) ==
    [c EXCEPT !.token_value = g.result, !.expires_at = g.expires_at]

\* The Authorization values of the requests of operation op.
authorization(c, op) == {c[h] : h \in HeadersOf(op)}

\* conn = AnaplanModel(login, ws_id, model_id); conn_expire_time = conn.expires_at
Construct ==
    /\ ~conn.made
    /\ \E status \in ExchangeStatuses, message \in ValidationMessages,
          o \in OAuthReplies :
          /\ Answers(status, message, o)
          /\ LET g == get_token(status, message, o)
             IN  /\ LoginGetToken(status, message, o, g)
                 /\ conn' = IF g.raised = "no" THEN init_model(g) ELSE conn
                 /\ conn_expire_time' =
                       IF g.raised = "no" THEN g.expires_at ELSE conn_expire_time
    /\ UNCHANGED <<via, clockVars, last_request, siteVars, uploadVars, taskVars, pollVars, contentVars>>

\* conn.get_token()
ModelGetToken ==
    /\ conn.made
    /\ \E status \in ExchangeStatuses, message \in ValidationMessages,
          o \in OAuthReplies :
          /\ Answers(status, message, o)
          /\ LET g == get_token(status, message, o)
             IN  /\ LoginGetToken(status, message, o, g)
                 /\ conn' = IF g.raised = "no" THEN model_get_token(conn, g)
                            ELSE conn
    /\ UNCHANGED <<via, conn_expire_time, clockVars, last_request, siteVars,
                   uploadVars, taskVars, pollVars, contentVars>>

\* datetime.now() > conn_expire_time; comparing with None is a TypeError.
time_is_up == conn_expire_time # NoTime /\ now + utc_offset > conn_expire_time

\* run.py, the head of the loop:
\*   if datetime.now() > conn_expire_time:
\*       conn.get_token(); conn_expire_time = conn.expires_at
LoopCheck ==
    /\ conn.made
    /\ time_is_up
    /\ \E status \in ExchangeStatuses, message \in ValidationMessages,
          o \in OAuthReplies :
          /\ Answers(status, message, o)
          /\ LET g == get_token(status, message, o)
             IN  /\ LoginGetToken(status, message, o, g)
                 /\ conn' = IF g.raised = "no" THEN model_get_token(conn, g)
                            ELSE conn
                 /\ conn_expire_time' =
                       IF g.raised = "no" THEN g.expires_at ELSE conn_expire_time
    /\ UNCHANGED <<via, clockVars, last_request, siteVars, uploadVars, taskVars, pollVars, contentVars>>

\* Any operation of AnaplanModel: its requests carry the header dictionaries.
Request ==
    /\ conn.made
    /\ \E op \in Ops :
          last_request' = [op |-> op, auth |-> authorization(conn, op), at |-> now]
    /\ UNCHANGED <<authVars, conn, conn_expire_time, clockVars, serverVars,
                   oauthVars, last_call, siteVars, uploadVars, taskVars, pollVars, contentVars>>

\* Time passes; the calls of the instant before are over.
Tick ==
    /\ \E d \in Steps : now + d <= MaxTime /\ now' = now + d
    /\ last_call' = NoCall
    /\ last_request' = NoRequest
    /\ UNCHANGED <<authVars, conn, conn_expire_time, utc_offset, serverVars,
                   oauthVars, siteVars, uploadVars, taskVars, pollVars, contentVars>>

----------------------------------------------------------------------------
\* Initial states.

Sites == {1, 2}
NoReply == [refresh_token |-> Unset, access_token |-> 0]

\* AnaplanAuth(via, *creds): no token yet. The env file holds the refresh
\* secret oauth_device_firstrun stored, which the server accepts.
InitAuth ==
    /\ token = NoneToken
    /\ expires_at = NoTime
    /\ issued = 0
    /\ recorded = [v \in 1..MaxTokens |-> NoTime]
    /\ server_secret = 1
    /\ store = 1
    /\ environ = Unset
    /\ last_call = NoCall
    /\ last_request = NoRequest
    /\ conn = NoConn
    /\ conn_expire_time = NoTime
    /\ now = 0

IdleSites ==
    /\ pc = [s \in Sites |-> "idle"]
    /\ body = [s \in Sites |-> Unset]
    /\ reply = [s \in Sites |-> NoReply]
    /\ submitted = <<>>

\* Values of SpecTasks.
InvalidTaskText == "Invalid task provided, please provide valid task"
BaseUrl == <<"https://api.anaplan.com/2/0/workspaces", "ws_id", "models", "model_id">>
NoTask == [taskId |-> 0, taskState |-> "none"]
NoHttp == [method |-> "none", base |-> <<>>,
           path |-> [collection |-> "none", id |-> <<>>], task |-> 0]
NoResult == [op |-> "none", outcome |-> "none", task |-> NoTask, state |-> "none"]

\* run.py has not reached conn.run.
IdlePoll ==
    /\ rpc = "idle"
    /\ poll_status = ""
    /\ own_task = 0

\* No file is being read.
IdleContent ==
    /\ content = <<>>
    /\ text = <<>>
    /\ chunk = <<>>
    /\ bodies = <<>>
    /\ cpc = "idle"

IdleTasks ==
    /\ action_id = <<>>
    /\ self_url = BaseUrl
    /\ tasks = <<>>
    /\ tpc = "idle"
    /\ polling = "none"
    /\ listed = <<>>
    /\ http = NoHttp
    /\ result = NoResult

IdleUpload ==
    /\ file = <<>>
    /\ chunk_size = 1
    /\ upc = "idle"
    /\ unread = <<>>
    /\ chunked_data = <<>>
    /\ chunk_num = 0
    /\ calls = <<>>

Init ==
    /\ via \in Vias
    /\ utc_offset \in Offsets
    /\ InitAuth
    /\ IdleSites
    /\ IdleUpload
    /\ IdleTasks
    /\ IdlePoll
    /\ IdleContent

Next ==
    \/ Construct
    \/ ModelGetToken
    \/ LoopCheck
    \/ Request
    \/ Tick

Spec == Init /\ [][Next]_vars

----------------------------------------------------------------------------
\* SpecOAuth: login = AnaplanAuth('oauth_refresh', file_env); login.get_token()
\* called from the call sites of one process. A call is suspended at the
\* network request and at the write of the env file.

\* get_token -> oauth_refresh: load_dotenv(file_env), then the request body is
\* built from os.environ.
Load(s) ==
    /\ pc[s] = "idle"
    /\ Len(submitted) + Cardinality({x \in Sites : pc[x] = "post"}) < MaxPosts
    /\ environ' = load_dotenv(environ, store)
    /\ body' = [body EXCEPT ![s] = environ']
    /\ pc' = [pc EXCEPT ![s] = "post"]
    /\ UNCHANGED <<authVars, conn, conn_expire_time, clockVars, serverVars,
                   server_secret, store, last_call, last_request, reply,
                   submitted, uploadVars, taskVars, pollVars, contentVars>>

\* req = requests.post(token_url, ...); j = json.loads(req.text)
Post(s) ==
    /\ pc[s] = "post"
    /\ \E o \in OAuthReplies :
          /\ OAuthAnswer(body[s], o)
          /\ LET j == oauth_token(body[s], o)
             IN  /\ reply' = [reply EXCEPT ![s] = j]
                 /\ server_secret' = IF j.refresh_token # Unset
                                     THEN j.refresh_token ELSE server_secret
                 /\ issued' = IF j.refresh_token # Unset
                              THEN issued + 1 ELSE issued
    /\ submitted' = Append(submitted, body[s])
    /\ pc' = [pc EXCEPT ![s] = "received"]
    /\ UNCHANGED <<authVars, conn, conn_expire_time, clockVars, recorded,
                   store, environ, last_call, last_request, body, uploadVars, taskVars, pollVars, contentVars>>

\* new_refresh_token = j['refresh_token'] (KeyError on an error response);
\* set_key(file_env, 'refresh_token', new_refresh_token)
Persist(s) ==
    /\ pc[s] = "received"
    /\ IF reply[s].refresh_token = Unset
       THEN /\ pc' = [pc EXCEPT ![s] = "idle"]
            /\ last_call' = [NoCall EXCEPT !.outcome = "raised", !.at = now]
            /\ store' = store
       ELSE /\ pc' = [pc EXCEPT ![s] = "persisted"]
            /\ store' = set_key(store, reply[s].refresh_token)
            /\ last_call' = last_call
    /\ UNCHANGED <<authVars, conn, conn_expire_time, clockVars, serverVars,
                   server_secret, environ, last_request, body, reply,
                   submitted, uploadVars, taskVars, pollVars, contentVars>>

\* return j; self._token = 'AnaplanAuthToken ' + j['access_token'];
\* self._expires_at = ...; return self._token
Return(s) ==
    /\ pc[s] = "persisted"
    /\ token' = Bearer(reply[s].access_token)
    /\ expires_at' = now + Validity
    /\ recorded' = [recorded EXCEPT ![reply[s].access_token] = now + Validity]
    /\ last_call' = [NoCall EXCEPT !.outcome = "returned", !.result = token',
                                   !.at = now]
    /\ pc' = [pc EXCEPT ![s] = "idle"]
    /\ UNCHANGED <<via, conn, conn_expire_time, clockVars, issued, oauthVars,
                   last_request, body, reply, submitted, uploadVars, taskVars, pollVars, contentVars>>

\* The process ends at any point and is started again: a new environment and
\* a new AnaplanAuth; the env file and the server keep their state.
Restart ==
    /\ \E s \in Sites : pc[s] # "idle"
    /\ pc' = [s \in Sites |-> "idle"]
    /\ body' = [s \in Sites |-> Unset]
    /\ reply' = [s \in Sites |-> NoReply]
    /\ environ' = Unset
    /\ token' = NoneToken
    /\ expires_at' = NoTime
    /\ last_call' = NoCall
    /\ UNCHANGED <<via, conn, conn_expire_time, clockVars, serverVars,
                   server_secret, store, last_request, submitted, uploadVars, taskVars, pollVars, contentVars>>

InitOAuth ==
    /\ via = "oauth_refresh"
    /\ utc_offset = 0
    /\ InitAuth
    /\ IdleSites
    /\ IdleUpload
    /\ IdleTasks
    /\ IdlePoll
    /\ IdleContent

NextOAuth ==
    \/ \E s \in Sites : Load(s)
    \/ \E s \in Sites : Post(s)
    \/ \E s \in Sites : Persist(s)
    \/ \E s \in Sites : Return(s)
    \/ Restart

SpecOAuth == InitOAuth /\ [][NextOAuth]_vars

----------------------------------------------------------------------------
\* SpecUpload: conn.upload(file_id, file), request by request. The file is a
\* text file of ASCII lines ending in '\n' (the last one may not), so that a
\* line's length in characters is its length in bytes.

RECURSIVE Sum(_)
Sum(q) == IF q = <<>> THEN 0 ELSE Head(q) + Sum(Tail(q))

\* f.readlines(hint): lines are read until the characters read so far exceed
\* hint (the line that exceeds it is part of the result); every line when
\* hint <= 0. taken is the number of lines of the result.
RECURSIVE taken(_, _, _)
taken(lines, hint, length) ==
    IF lines = <<>> THEN 0
    ELSE IF Head(lines) > hint - length THEN 1
    ELSE 1 + taken(Tail(lines), hint, length + Head(lines))

readlines(lines, hint) ==
    IF hint <= 0 THEN lines ELSE SubSeq(lines, 1, taken(lines, hint, 0))

\* What f has left after f.readlines(hint).
remaining(lines, hint) ==
    SubSeq(lines, Len(readlines(lines, hint)) + 1, Len(lines))

\* Python's a / b on integers is the float a / b: kept as a fraction.
true_div(a, b) == [num |-> a, den |-> b]
Whole(n) == [num |-> n, den |-> 1]

\* Path(file).stat().st_size
file_size == Sum(file)

\* body_begin and body_complete
body_begin == [call |-> "begin", index |-> -1, size |-> 0,
               chunkCount |-> Whole(-1)]
body_complete == [call |-> "complete", index |-> -1, size |-> 0,
                  chunkCount |-> true_div(file_size, chunk_size)]

\* The chunk put under a one-based index.
put_chunk_one_based(n, data) ==
    [call |-> "chunk", index |-> n + 1, size |-> Sum(data),
     chunkCount |-> Whole(0)]

\* requests.put(upload_file_url + '/chunks/' + str(chunk_num), data=upload_data)
put_chunk(n, data) == [call |-> "chunk", index |-> n, size |-> Sum(data),
                       chunkCount |-> Whole(0)]

\* A request ends in a response with ok, in a response without, or in an
\* exception of the transport.
Responses == {"ok", "not_ok", "error"}

Sent(request, r) == [request |-> request, response |-> r]

\* The begin response taken as acknowledged whatever its status.
begin_ok_unchecked(r) == r # "error"

\* if begin_upload_request.ok:
begin_ok(r) == r = "ok"

\* begin_upload_request = requests.post(...); when it is ok the file is opened
\* and the first lines are read, otherwise the message is returned.
UploadBegin ==
    /\ upc = "start"
    /\ \E r \in Responses :
          /\ calls' = Append(calls, Sent(body_begin, r))
          /\ IF begin_ok(r)
             THEN /\ upc' = "loop"
                  /\ chunk_num' = 0
                  /\ chunked_data' = readlines(file, chunk_size)
                  /\ unread' = remaining(file, chunk_size)
             ELSE /\ upc' = IF r = "not_ok" THEN "rejected" ELSE "raised"
                  /\ UNCHANGED <<chunk_num, chunked_data, unread>>
    /\ UNCHANGED <<authVars, conn, conn_expire_time, clockVars, serverVars,
                   oauthVars, last_call, last_request, siteVars, taskVars, pollVars, contentVars, file,
                   chunk_size>>

\* One turn of `while chunked_data`: the lines are joined and put as chunk
\* chunk_num, whose response is not looked at; then the next lines are read.
UploadChunk ==
    /\ upc = "loop"
    /\ chunked_data # <<>>
    /\ \E r \in Responses :
          /\ calls' = Append(calls, Sent(put_chunk(chunk_num, chunked_data), r))
          /\ IF r = "error"
             THEN /\ upc' = "raised"
                  /\ UNCHANGED <<chunk_num, chunked_data, unread>>
             ELSE /\ upc' = "loop"
                  /\ chunked_data' = readlines(unread, chunk_size)
                  /\ unread' = remaining(unread, chunk_size)
                  /\ chunk_num' = chunk_num + 1
    /\ UNCHANGED <<authVars, conn, conn_expire_time, clockVars, serverVars,
                   oauthVars, last_call, last_request, siteVars, taskVars, pollVars, contentVars, file,
                   chunk_size>>

\* After the loop: requests.post(upload_file_url + '/complete', json=body_complete)
\* and the response is returned.
UploadComplete ==
    /\ upc = "loop"
    /\ chunked_data = <<>>
    /\ \E r \in Responses :
          /\ calls' = Append(calls, Sent(body_complete, r))
          /\ upc' = IF r = "error" THEN "raised" ELSE "done"
    /\ UNCHANGED <<authVars, conn, conn_expire_time, clockVars, serverVars,
                   oauthVars, last_call, last_request, siteVars, taskVars, pollVars, contentVars, file,
                   chunk_size, unread, chunked_data, chunk_num>>

Lines == 1..MaxLineLen
Files == UNION {[1..n -> Lines] : n \in 0..MaxLines}

\* A model connected with a valid token, a file and a chunk bound.
InitUpload ==
    /\ via = "basic"
    /\ utc_offset = 0
    /\ now = 0
    /\ token = Bearer(1)
    /\ expires_at = Validity
    /\ issued = 1
    /\ recorded = [v \in 1..MaxTokens |-> IF v = 1 THEN Validity ELSE NoTime]
    /\ server_secret = 1
    /\ store = 1
    /\ environ = Unset
    /\ last_call = NoCall
    /\ last_request = NoRequest
    /\ conn = [made |-> TRUE, token_value |-> Bearer(1), expires_at |-> Validity,
               header |-> Bearer(1), task_header |-> Bearer(1),
               json_header |-> Bearer(1), file_header |-> Bearer(1)]
    /\ conn_expire_time = Validity
    /\ IdleSites
    /\ file \in Files
    /\ chunk_size \in 1..MaxChunk
    /\ upc = "start"
    /\ unread = <<>>
    /\ chunked_data = <<>>
    /\ chunk_num = 0
    /\ calls = <<>>
    /\ IdleTasks
    /\ IdlePoll
    /\ IdleContent

NextUpload ==
    \/ UploadBegin
    \/ UploadChunk
    \/ UploadComplete

SpecUpload == InitUpload /\ [][NextUpload]_vars

----------------------------------------------------------------------------
\* Claims checked under Spec.

\* C1: no request is sent whose Authorization token has a recorded expiry at
\* or before the instant the request is sent.
C1_NoExpiredTokenSent ==
    \A a \in last_request.auth :
        IsBearer(a) => recorded[a.value] > last_request.at

\* C2: at every request the Authorization value is the token most recently
\* obtained through get_token().
C2_RequestCarriesLatestToken ==
    (last_request.op # "none" /\ IsBearer(token)) =>
        \A a \in last_request.auth : a = token

\* C5: a validation status other than success makes get_token raise and yield
\* no token; a bearer is returned only when the validation reports success.
C5_FailedValidationRaises ==
    /\ (last_call.validated /\ last_call.message # "Token validated") =>
           (last_call.outcome = "raised" /\ ~IsBearer(last_call.result))
    /\ (last_call.outcome = "returned" /\ last_call.validated
            /\ IsBearer(last_call.result)) =>
           last_call.message = "Token validated"

\* C6: no AnaplanModel request is issued with the result of an authentication
\* that did not produce a bearer token.
C6_NoRequestAfterFailedAuth ==
    \A a \in last_request.auth : IsBearer(a)

\* C7: for basic, certificate and oauth_refresh, what get_token returns is a
\* token and the recorded expiry is strictly later than the instant of return.
C7_ReturnedTokenNotExpired ==
    (last_call.outcome = "returned" /\ via \in Supported) =>
        /\ IsBearer(last_call.result)
        /\ expires_at # NoTime
        /\ expires_at > last_call.at

\* C8: a get_token call whose exchange answers FAILURE_BAD_CREDENTIAL ends in
\* an exception, sends no validation request and leaves token and expires_at
\* as they were.
C8_BadCredentialRaises ==
    [][last_call'.status = "FAILURE_BAD_CREDENTIAL" =>
          /\ last_call'.outcome = "raised"
          /\ ~last_call'.validated
          /\ ~IsBearer(last_call'.result)
          /\ token' = token
          /\ expires_at' = expires_at]_vars

\* C8 witness: a refresh through conn.get_token() was rejected and the token
\* of the construction is still in place.
C8_Witness ==
    /\ last_call.status = "FAILURE_BAD_CREDENTIAL"
    /\ last_call.outcome = "raised"
    /\ conn.made
    /\ IsBearer(token)

----------------------------------------------------------------------------
\* Claims checked under SpecOAuth.

InExchange == {"received", "persisted"}

\* C3: read-or-refresh of the token is serialized between call sites: no two
\* calls in progress have both submitted the same refresh secret.
C3_RefreshIsSerialized ==
    \A s1 \in Sites, s2 \in Sites :
        s1 # s2 =>
            ~(pc[s1] \in InExchange /\ pc[s2] \in InExchange
                 /\ body[s1] = body[s2])

\* C4: when oauth_refresh is about to return, and for as long as the token of
\* that exchange is the one handed to the caller, the env file holds the
\* refresh secret that exchange issued and not the one it submitted.
C4_PersistBeforeReturn ==
    \A s \in Sites :
        /\ pc[s] = "persisted" =>
              (store = reply[s].refresh_token /\ store # body[s])
        /\ (IsBearer(token) /\ token.value = reply[s].access_token) =>
              (store = reply[s].refresh_token /\ store # body[s])

\* C4 witness: get_token has returned the token of a successful exchange.
C4_Witness ==
    \E s \in Sites :
        /\ pc[s] = "idle"
        /\ last_call.outcome = "returned"
        /\ IsBearer(token) /\ token.value = reply[s].access_token
        /\ store = reply[s].refresh_token
        /\ body[s] = 1 /\ store = 2

----------------------------------------------------------------------------
\* Claims checked under SpecUpload.

\* The chunk PUT calls of the session, in the order sent.
ChunkCalls == SelectSeq(calls, LAMBDA c : c.request.call = "chunk")
CompleteCalls == SelectSeq(calls, LAMBDA c : c.request.call = "complete")

\* ceil(F / B)
Ceil(F, B) == (F + B - 1) \div B

\* C9: an accepted upload issues exactly ceil(F/B) chunk PUT calls, with the
\* indices 0, 1, ..., ceil(F/B)-1 in the order of transmission.
C9_ChunkCallsAreCeil ==
    upc = "done" =>
        /\ Len(ChunkCalls) = Ceil(file_size, chunk_size)
        /\ \A i \in 1..Len(ChunkCalls) : ChunkCalls[i].request.index = i - 1

\* C10: the chunkCount of the 'complete' notification is an integer, the number
\* of chunk PUT calls of the session.
C10_CompleteCarriesChunkCount ==
    upc = "done" =>
        \A i \in 1..Len(CompleteCalls) :
            CompleteCalls[i].request.chunkCount.num =
                Len(ChunkCalls) * CompleteCalls[i].request.chunkCount.den


BeginCalls == SelectSeq(calls, LAMBDA c : c.request.call = "begin")

\* C11: a chunk PUT that failed (an exception of the transport or a response
\* that is not ok) is never followed by a completion call, and the upload ends
\* in an error.
C11_NoCompleteAfterFailedChunk ==
    (\E i \in 1..Len(ChunkCalls) : ChunkCalls[i].response # "ok") =>
        (Len(CompleteCalls) = 0 /\ upc \in {"loop", "raised"})

\* C12: when the begin call is answered with a response that is not ok, upload
\* sends no chunk PUT and no completion call and returns its rejection message.
C12_RejectedBeginSendsNothing ==
    (Len(calls) > 0 /\ calls[1].response = "not_ok") =>
        /\ upc = "rejected"
        /\ Len(calls) = 1
        /\ Len(ChunkCalls) = 0
        /\ Len(CompleteCalls) = 0

\* C12 witness: the begin call of an upload of a file with lines was rejected.
C12_Witness ==
    /\ upc = "rejected"
    /\ Len(file) > 1
    /\ Len(calls) = 1 /\ calls[1].request.call = "begin"
    /\ calls[1].response = "not_ok"

\* C13: the calls of a session are one begin call with chunkCount -1, then the
\* chunk PUTs in index order, each sent after the one before has returned, then
\* at most one completion call; an upload that ran to its end sent exactly one
\* completion call, after the last chunk PUT returned and the file was read to
\* its end.
C13_BeginChunksComplete ==
    /\ \A i \in 1..Len(calls) :
          /\ (i = 1) <=> (calls[i].request.call = "begin")
          /\ calls[i].request.call = "begin" =>
                calls[i].request.chunkCount = Whole(-1)
          /\ calls[i].request.call = "chunk" =>
                (calls[i].request.index = i - 2 /\ calls[1].response = "ok")
          /\ calls[i].request.call = "complete" =>
                (i = Len(calls) /\ unread = <<>> /\ chunked_data = <<>>)
          /\ i < Len(calls) => calls[i].response # "error"
    /\ upc = "done" =>
          /\ Len(BeginCalls) = 1
          /\ Len(CompleteCalls) = 1
          /\ Len(ChunkCalls) = Len(calls) - 2
          /\ calls[Len(calls)].request.call = "complete"

\* C13 witness: an upload of several chunks ran to its end.
C13_Witness ==
    /\ upc = "done"
    /\ Len(ChunkCalls) >= 3

\* C14: no chunk PUT carries more bytes than chunk_size.
C14_ChunkWithinBound ==
    \A i \in 1..Len(ChunkCalls) : ChunkCalls[i].request.size <= chunk_size


\* ---------------------------------------------------------------------------
\* SpecTasks: run(), monitor() and status() of one AnaplanModel on one action,
\* request by request, against a server whose task list other users and the
\* server itself also change.
\* ---------------------------------------------------------------------------
MaxTasks == 3
MaxPad == 1

Collections == {"imports", "exports", "actions", "processes"}
TaskStates == {"IN_PROGRESS", "COMPLETE", "CANCELLED"}
Pollers == {"monitor", "status"}

\* action_id[:3]
prefix3(id) == SubSeq(id, 1, IF Len(id) < 3 THEN Len(id) ELSE 3)

Path(task, id) == [collection |-> task, id |-> id]
InvalidTask == [collection |-> InvalidTaskText, id |-> <<>>]

parse_action_id_swapped(id) ==
    IF prefix3(id) = <<1, 1, 2>> THEN Path("imports", id)
    ELSE IF prefix3(id) = <<1, 1, 6>> THEN Path("actions", id)
    ELSE IF prefix3(id) = <<1, 1, 7>> THEN Path("exports", id)
    ELSE IF prefix3(id) = <<1, 1, 8>> THEN Path("processes", id)
    ELSE InvalidTask

parse_action_id(id) ==
    IF prefix3(id) = <<1, 1, 2>> THEN Path("imports", id)
    ELSE IF prefix3(id) = <<1, 1, 6>> THEN Path("exports", id)
    ELSE IF prefix3(id) = <<1, 1, 7>> THEN Path("actions", id)
    ELSE IF prefix3(id) = <<1, 1, 8>> THEN Path("processes", id)
    ELSE InvalidTask

\* The server knows the four collections; any other path names nothing.
Routable(path) == path.collection \in Collections

\* url = self.url + parse_action_id(action_id) (+ '/tasks'): a local of the
\* call; self.url is read only.
monitor_url_on_self(u, path) ==
    [self_url |-> Append(u, path.collection), url |-> [base |-> u, path |-> path]]

monitor_url(u, path) == [self_url |-> u, url |-> [base |-> u, path |-> path]]

\* A request to url + '/tasks' (task = 0) or url + '/tasks/{task}'.
TaskRequest(method, url, task) ==
    [method |-> method, base |-> url.base, path |-> url.path, task |-> task]

\* tasks[-1]['taskId']
latest_task_first(list) == list[1].taskId

latest_task(list) == list[Len(list)].taskId

\* The server's answer to GET .../tasks/{id}.
TaskDetail(id) == tasks[CHOOSE i \in 1..Len(tasks) : tasks[i].taskId = id]

status_returns(task) == task.taskState

NewTask == [taskId |-> Len(tasks) + 1, taskState |-> "IN_PROGRESS"]

RunCall ==
    /\ tpc = "idle"
    /\ LET path == parse_action_id(action_id)
           url == [base |-> self_url, path |-> path]
       IN  /\ Routable(path) => Len(tasks) < MaxTasks
           /\ http' = TaskRequest("POST", url, 0)
           /\ IF Routable(path)
              THEN /\ tasks' = Append(tasks, NewTask)
                   /\ result' = [op |-> "run", outcome |-> "returned",
                                 task |-> NewTask, state |-> "none"]
              ELSE /\ tasks' = tasks
                   /\ result' = [op |-> "run", outcome |-> "returned",
                                 task |-> NoTask, state |-> "error"]
    /\ UNCHANGED <<authVars, conn, conn_expire_time, clockVars, serverVars, oauthVars,
                   last_call, last_request, siteVars, uploadVars, contentVars,
                   action_id, self_url, tpc, polling, listed>>

\* conn.run(action_id)
Run == RunCall /\ UNCHANGED pollVars

\* monitor() up to the answer of its first request.
MonitorListCall(o) ==
    /\ tpc = "idle"
    /\ LET m == monitor_url(self_url, parse_action_id(action_id))
       IN  /\ self_url' = m.self_url
           /\ http' = TaskRequest("GET", m.url, 0)
           /\ IF Routable(m.url.path) /\ tasks # <<>>
              THEN /\ listed' = tasks
                   /\ tpc' = "listed"
                   /\ polling' = o
                   /\ result' = result
              ELSE /\ listed' = <<>>
                   /\ tpc' = "idle"
                   /\ polling' = "none"
                   /\ result' = [op |-> o, outcome |-> "raised",
                                 task |-> NoTask, state |-> "none"]
    /\ UNCHANGED <<authVars, conn, conn_expire_time, clockVars, serverVars, oauthVars,
                   last_call, last_request, siteVars, uploadVars, contentVars,
                   action_id, tasks>>

MonitorList(o) == MonitorListCall(o) /\ UNCHANGED pollVars

\* monitor() from latest_task to its return, and status()'s return.
MonitorDetailCall ==
    /\ tpc = "listed"
    /\ LET id == latest_task(listed)
           task == TaskDetail(id)
       IN  /\ http' = [http EXCEPT !.task = id]
           /\ result' = [op |-> polling, outcome |-> "returned", task |-> task,
                         state |-> IF polling = "status" THEN status_returns(task)
                                   ELSE "none"]
    /\ tpc' = "idle"
    /\ polling' = "none"
    /\ listed' = <<>>
    /\ UNCHANGED <<authVars, conn, conn_expire_time, clockVars, serverVars, oauthVars,
                   last_call, last_request, siteVars, uploadVars, contentVars,
                   action_id, self_url, tasks>>

MonitorDetail == MonitorDetailCall /\ UNCHANGED pollVars

\* Another user, or a schedule, runs the same action.
ServerStart ==
    /\ Routable(parse_action_id(action_id))
    /\ Len(tasks) < MaxTasks
    /\ tasks' = Append(tasks, NewTask)
    /\ UNCHANGED <<authVars, conn, conn_expire_time, clockVars, serverVars, oauthVars,
                   last_call, last_request, siteVars, uploadVars,
                   action_id, self_url, tpc, polling, listed, http, result,
                   pollVars, contentVars>>

ServerProgress ==
    /\ \E i \in 1..Len(tasks) : \E st \in TaskStates \ {"IN_PROGRESS"} :
            /\ tasks[i].taskState = "IN_PROGRESS"
            /\ tasks' = [tasks EXCEPT ![i].taskState = st]
    /\ UNCHANGED <<authVars, conn, conn_expire_time, clockVars, serverVars, oauthVars,
                   last_call, last_request, siteVars, uploadVars,
                   action_id, self_url, tpc, polling, listed, http, result,
                   pollVars, contentVars>>

Prefixes == {<<1, 1, 2>>, <<1, 1, 6>>, <<1, 1, 7>>, <<1, 1, 8>>,
             <<9, 9, 9>>, <<1, 8, 1>>, <<1, 1>>, <<>>}
ActionIds == {p \o [i \in 1..n |-> 0] : p \in Prefixes, n \in 0..MaxPad}

InitTaskState ==
    /\ via = "basic"
    /\ utc_offset = 0
    /\ now = 0
    /\ token = Bearer(1)
    /\ expires_at = Validity
    /\ issued = 1
    /\ recorded = [v \in 1..MaxTokens |-> IF v = 1 THEN Validity ELSE NoTime]
    /\ server_secret = 1
    /\ store = 1
    /\ environ = Unset
    /\ last_call = NoCall
    /\ last_request = NoRequest
    /\ conn = [made |-> TRUE, token_value |-> Bearer(1), expires_at |-> Validity,
               header |-> Bearer(1), task_header |-> Bearer(1),
               json_header |-> Bearer(1), file_header |-> Bearer(1)]
    /\ conn_expire_time = Validity
    /\ IdleSites
    /\ file = <<>>
    /\ chunk_size = MaxChunk
    /\ upc = "idle"
    /\ unread = <<>>
    /\ chunked_data = <<>>
    /\ chunk_num = 0
    /\ calls = <<>>
    /\ action_id \in ActionIds
    /\ self_url = BaseUrl
    /\ tasks \in {<<>>, <<[taskId |-> 1, taskState |-> "COMPLETE"]>>}
    /\ tasks # <<>> => Routable(parse_action_id(action_id))
    /\ tpc = "idle"
    /\ polling = "none"
    /\ listed = <<>>
    /\ http = NoHttp
    /\ result = NoResult

InitTasks ==
    /\ InitTaskState
    /\ IdlePoll
    /\ IdleContent

NextTasks ==
    \/ Run
    \/ \E o \in Pollers : MonitorList(o)
    \/ MonitorDetail
    \/ ServerStart
    \/ ServerProgress

SpecTasks == InitTasks /\ [][NextTasks]_vars


----------------------------------------------------------------------------
\* Claims checked under SpecTasks.

\* C15: an action id whose first three digits are none of 112, 116, 117, 118
\* is never used by run or monitor as a path: no request is sent for it.
C15_UnrecognisedNeverRouted ==
    ~Routable(parse_action_id(action_id)) => http.method = "none"

\* The first three digits of the action id, read off the id itself.
Leading ==
    IF Len(action_id) >= 3 THEN <<action_id[1], action_id[2], action_id[3]>>
    ELSE <<>>

\* C16: every request of run and monitor for a recognised id goes to
\* '{collection}/{id}' with 112 -> imports, 116 -> exports, 117 -> actions,
\* 118 -> processes, the same path on every call, and below self.url as it
\* was built.
C16_ParseTable ==
    http.method # "none" =>
        /\ Leading = <<1, 1, 2>> => http.path = [collection |-> "imports", id |-> action_id]
        /\ Leading = <<1, 1, 6>> => http.path = [collection |-> "exports", id |-> action_id]
        /\ Leading = <<1, 1, 7>> => http.path = [collection |-> "actions", id |-> action_id]
        /\ Leading = <<1, 1, 8>> => http.path = [collection |-> "processes", id |-> action_id]
        /\ http.path = parse_action_id(action_id)
        /\ http.base = BaseUrl

C16_Witness ==
    /\ action_id = <<1, 1, 6, 0>>
    /\ http.method = "POST"
    /\ http.path.collection = "exports"
    /\ result.op = "run"

\* C17: monitor asks for the detail of the last task of the list the server
\* returned, returns that task, and status returns its taskState.
C17_MonitorTakesLast ==
    [][/\ (tpc = "idle" /\ tpc' = "listed") => (tasks # <<>> /\ listed' = tasks)
       /\ (tpc = "listed" /\ tpc' = "idle") =>
            /\ http'.task = listed[Len(listed)].taskId
            /\ result'.op = polling
            /\ result'.outcome = "returned"
            /\ result'.task.taskId = http'.task
            /\ polling = "status" => result'.state = result'.task.taskState]_vars

C17_Witness ==
    /\ result.op = "status"
    /\ result.outcome = "returned"
    /\ http.task = 2
    /\ result.task.taskId = 2
    /\ result.state = "COMPLETE"
    /\ tasks[1].taskState = "CANCELLED"

\* A step of monitor or status.
PollStep ==
    \/ tpc = "idle" /\ tpc' = "listed"
    \/ tpc = "listed"
    \/ result' # result /\ result'.op \in Pollers

\* C18: monitor and status change no field of the AnaplanModel or of its
\* AnaplanAuth, take no time, keep nothing from one call to the next, and
\* return the task as the server holds it when the call returns.
C18_PollerIsStateless ==
    [][PollStep =>
        /\ UNCHANGED <<authVars, conn, conn_expire_time, self_url, chunk_size,
                       clockVars>>
        /\ tpc' = "idle" => (listed' = <<>> /\ polling' = "none")
        /\ (tpc' = "idle" /\ result'.outcome = "returned") =>
                \E i \in 1..Len(tasks) : result'.task = tasks[i]]_vars

C18_Witness ==
    /\ result.op = "monitor"
    /\ result.outcome = "returned"
    /\ result.task.taskState = "CANCELLED"
    /\ Len(tasks) >= 2
    /\ self_url = BaseUrl
    /\ conn.task_header = token


----------------------------------------------------------------------------
\* Claims checked under Spec (continued).

\* C19: when the exchange answers SUCCESS and the validation succeeds (basic,
\* certificate), or the OAuth exchange succeeds (oauth_refresh), get_token()
\* returns 'AnaplanAuthToken ' followed by the token value the server has
\* just issued, and AnaplanAuth.token holds the same string.
C19_SuccessYieldsPrefixedBearer ==
    (\/ /\ via \in {"basic", "certificate"}
        /\ last_call.status = "SUCCESS"
        /\ last_call.message = "Token validated"
     \/ /\ via = "oauth_refresh"
        /\ last_call.outcome = "returned") =>
        /\ last_call.outcome = "returned"
        /\ last_call.result = [kind |-> "AnaplanAuthToken ", value |-> issued]
        /\ token = last_call.result

C19_Witness ==
    /\ via = "certificate"
    /\ last_call.status = "SUCCESS"
    /\ last_call.message = "Token validated"
    /\ last_call.outcome = "returned"
    /\ token = Bearer(2)


----------------------------------------------------------------------------
\* SpecAuth: one AnaplanAuth used on its own, get_token() and refresh() called
\* in any order while time passes. last_request records the request sent to
\* the token endpoint (/token/authenticate, /oauth/token, /token/refresh).
----------------------------------------------------------------------------

\* The Authorization header of the exchange request of get_token(): the
\* credential. OAuth sends its secret in the body; an unknown via sends nothing.
Credentials ==
    IF via = "basic" THEN {[kind |-> "Basic ", value |-> 0]}
    ELSE IF via = "certificate" THEN {[kind |-> "CACertificate ", value |-> 0]}
    ELSE {}

\* login.get_token()
AuthGetToken ==
    /\ \E status \in ExchangeStatuses, message \in ValidationMessages,
          o \in OAuthReplies :
          /\ Answers(status, message, o)
          /\ LoginGetToken(status, message, o, get_token(status, message, o))
    /\ last_request' = [op |-> IF via \in Supported THEN "authenticate" ELSE "none",
                        auth |-> Credentials, at |-> now]
    /\ UNCHANGED <<via, conn, conn_expire_time, clockVars, siteVars, uploadVars,
                   taskVars, pollVars, contentVars>>

\* The response of POST /token/refresh, of the shape of the exchange response.
refresh_json(status) ==
    [status |-> status,
     tokenValue |-> IF status = "SUCCESS" THEN issued + 1 ELSE 0]

\* The server refreshes only a bearer that has not expired.
RefreshAnswer(status) ==
    status = "SUCCESS" =>
        /\ IsBearer(token)
        /\ recorded[token.value] # NoTime
        /\ now < recorded[token.value]
        /\ issued < MaxTokens

\* header = {'Authorization': self._token}; requests drops a header whose
\* value is None.
refresh_header == IF token = NoneToken THEN {} ELSE {token}

\* refresh() leaving _expires_at as it was.
refresh_keeps_expiry(status) ==
    LET full_token_json == refresh_json(status)
    IN  IF full_token_json.tokenValue = 0
        THEN [raised |-> "KeyError", result |-> NoneToken, token |-> token,
              expires_at |-> expires_at]
        ELSE [raised |-> "no", result |-> Bearer(full_token_json.tokenValue),
              token |-> Bearer(full_token_json.tokenValue),
              expires_at |-> expires_at]

\* refresh(): the response is not examined; one without tokenInfo is a
\* KeyError before any field is assigned.
refresh(status) ==
    LET full_token_json == refresh_json(status)
    IN  IF full_token_json.tokenValue = 0
        THEN [raised |-> "KeyError", result |-> NoneToken, token |-> token,
              expires_at |-> expires_at]
        ELSE [raised |-> "no", result |-> Bearer(full_token_json.tokenValue),
              token |-> Bearer(full_token_json.tokenValue),
              expires_at |-> now + Validity]

\* login.refresh()
Refresh ==
    /\ \E status \in ExchangeStatuses :
          /\ RefreshAnswer(status)
          /\ LET f == refresh(status)
             IN  /\ token' = f.token
                 /\ expires_at' = f.expires_at
                 /\ issued' = IF status = "SUCCESS" THEN issued + 1 ELSE issued
                 /\ recorded' = IF f.raised = "no"
                                THEN [recorded EXCEPT ![f.result.value] = f.expires_at]
                                ELSE recorded
                 /\ last_call' = [outcome |-> IF f.raised = "no" THEN "returned"
                                              ELSE "raised",
                                  result |-> f.result, at |-> now,
                                  status |-> status, message |-> "none",
                                  validated |-> FALSE]
    /\ last_request' = [op |-> "refresh", auth |-> refresh_header, at |-> now]
    /\ UNCHANGED <<via, conn, conn_expire_time, clockVars, server_secret, store,
                   environ, siteVars, uploadVars, taskVars, pollVars, contentVars>>

NextAuth ==
    \/ AuthGetToken
    \/ Refresh
    \/ Tick

SpecAuth == Init /\ [][NextAuth]_vars

----------------------------------------------------------------------------
\* Claims checked under SpecAuth.

\* C20: a refresh() of a basic or certificate AnaplanAuth that the server
\* answers with SUCCESS sent the bearer held before, still valid, and nothing
\* else; AnaplanAuth.token is the new bearer and expires_at is a full validity
\* period after the instant of the refresh.
C20_RefreshExchangesBearer ==
    (/\ via \in {"basic", "certificate"}
     /\ last_request.op = "refresh"
     /\ last_call.status = "SUCCESS") =>
        /\ Cardinality(last_request.auth) = 1
        /\ \A a \in last_request.auth :
              /\ a.kind = "AnaplanAuthToken "
              /\ a \notin Credentials
              /\ a # token
              /\ now < recorded[a.value]
        /\ last_call.outcome = "returned"
        /\ token = [kind |-> "AnaplanAuthToken ", value |-> issued]
        /\ last_call.result = token
        /\ expires_at = now + 35

C20_Witness ==
    /\ via = "basic"
    /\ last_request.op = "refresh"
    /\ last_call.status = "SUCCESS"
    /\ last_request.auth = {Bearer(1)}
    /\ token = Bearer(2)
    /\ now > 0
    /\ expires_at = now + Validity


----------------------------------------------------------------------------
\* SpecPoll: run.py from conn.run(file_upload_proc) to the log file:
\*     conn.run(id); status = ''
\*     while status != 'COMPLETE': status = conn.status(id); sleep(2)
\*     f.write(str(conn.monitor(id)))
\* An exception of a library call ends the program ("crashed").
----------------------------------------------------------------------------

\* conn.run(file_upload_proc); status = ''
PollRun ==
    /\ rpc = "run"
    /\ RunCall
    /\ own_task' = IF Routable(parse_action_id(action_id)) THEN NewTask.taskId ELSE 0
    /\ poll_status' = ""
    /\ rpc' = "loop"

\* while status != 'COMPLETE'
loop_continues(st) == st # "COMPLETE"

\* The loop test and conn.status(...) up to the answer of its first request.
LoopStatusList ==
    /\ rpc = "loop"
    /\ loop_continues(poll_status)
    /\ MonitorListCall("status")
    /\ rpc' = IF tpc' = "idle" THEN "crashed" ELSE "loop"
    /\ UNCHANGED <<poll_status, own_task>>

\* status = conn.status(...) from its second request on; sleep(2)
LoopStatusDetail ==
    /\ rpc = "loop"
    /\ MonitorDetailCall
    /\ poll_status' = result'.state
    /\ UNCHANGED <<rpc, own_task>>

\* The loop test fails: the loop is left.
LoopExit ==
    /\ rpc = "loop"
    /\ tpc = "idle"
    /\ ~loop_continues(poll_status)
    /\ rpc' = "log"
    /\ UNCHANGED <<authVars, conn, conn_expire_time, clockVars, serverVars, oauthVars,
                   last_call, last_request, siteVars, uploadVars, contentVars, taskVars,
                   poll_status, own_task>>

\* conn.monitor(...) for the log file, up to the answer of its first request.
LogList ==
    /\ rpc = "log"
    /\ MonitorListCall("monitor")
    /\ rpc' = IF tpc' = "idle" THEN "crashed" ELSE "log"
    /\ UNCHANGED <<poll_status, own_task>>

\* conn.monitor(...) from its second request on; f.write(...)
LogDetail ==
    /\ rpc = "log"
    /\ MonitorDetailCall
    /\ rpc' = "done"
    /\ UNCHANGED <<poll_status, own_task>>

InitPoll ==
    /\ InitTaskState
    /\ rpc = "run"
    /\ poll_status = ""
    /\ own_task = 0
    /\ IdleContent

\* The steps of run.py.
PollClient ==
    \/ PollRun
    \/ LoopStatusList
    \/ LoopStatusDetail
    \/ LoopExit
    \/ LogList
    \/ LogDetail

NextPoll ==
    \/ PollClient
    \/ ServerStart
    \/ ServerProgress

SpecPoll == InitPoll /\ [][NextPoll]_vars

\* run.py is one sequential program that keeps running, every request is
\* answered, and the server brings every task it started to an end.
SpecPollFair == SpecPoll /\ WF_vars(PollClient) /\ WF_vars(ServerProgress)

----------------------------------------------------------------------------
\* Claims checked under SpecPoll and SpecPollFair.

\* The task conn.run created is in a state other than in-progress.
OwnTaskEnded ==
    /\ own_task # 0
    /\ \E i \in 1..Len(tasks) :
          tasks[i].taskId = own_task /\ tasks[i].taskState # "IN_PROGRESS"

\* C21: once the task of the run has reached any state other than
\* in-progress, the poll loop of run.py is eventually left.
C21_PollLoopEnds == (rpc = "loop" /\ OwnTaskEnded) ~> (rpc # "loop")


\* C23: in a run-then-poll sequence every task that status reports, and so
\* the task on whose state the poll loop ends, is the task the run created.
C23_PollReportsOwnTask ==
    (rpc \in {"loop", "log"} /\ result.op = "status" /\ result.outcome = "returned") =>
        result.task.taskId = own_task


----------------------------------------------------------------------------
\* Claims checked under SpecOAuth (continued).

\* C22: the refresh secret a get_token() call puts into its request is the
\* one the env file holds when the call builds the request, that is the
\* secret the last successful exchange persisted.
C22_SubmitsPersistedSecret ==
    [][\A s \in Sites : (pc[s] = "idle" /\ pc'[s] = "post") => body'[s] = store]_vars


----------------------------------------------------------------------------
\* Claims checked under SpecAuth (continued).

\* C25: a get_token() call that raises leaves token and expires_at as they
\* were, and in every reachable state expires_at is set only when token
\* holds a bearer string.
C25_ExpirySetOnlyWithBearer ==
    /\ [][(last_call'.outcome = "raised" /\ last_request'.op # "refresh")
            => UNCHANGED <<token, expires_at>>]_vars
    /\ [](expires_at # NoTime => IsBearer(token))


----------------------------------------------------------------------------
\* SpecContent: the chunk loop of one accepted upload() on the content of the
\* file. The file holds ASCII bytes; `open(file, 'rt')` decodes them with
\* universal newlines, the loop joins the lines of each readlines() result and
\* puts them encoded as utf-8.
----------------------------------------------------------------------------
MaxBytes == 4

\* The bytes of the letter x, of carriage return and of line feed.
X == 120
CR == 13
LF == 10
Bytes == {X, CR, LF}
Contents == UNION {[1..n -> Bytes] : n \in 0..MaxBytes}

\* The character of an ASCII byte and back ('utf-8' on ASCII text).
chr(b) == IF b = X THEN "x" ELSE IF b = CR THEN "\r" ELSE "\n"
ord(c) == IF c = "x" THEN X ELSE IF c = "\r" THEN CR ELSE LF

\* Reading in text mode with newline=None: '\r\n' and '\r' become '\n'.
RECURSIVE decode(_)
decode(b) ==
    IF b = <<>> THEN <<>>
    ELSE IF Head(b) = CR
    THEN <<"\n">> \o decode(IF Len(b) >= 2 /\ b[2] = LF THEN Tail(Tail(b))
                           ELSE Tail(b))
    ELSE <<chr(Head(b))>> \o decode(Tail(b))

\* upload_data.encode('utf-8')
encode(t) == [i \in 1..Len(t) |-> ord(t[i])]

\* The lines of a text, each with its '\n' (the last may have none).
line_end(t) ==
    IF \E i \in 1..Len(t) : t[i] = "\n"
    THEN CHOOSE i \in 1..Len(t) : t[i] = "\n" /\ \A k \in 1..(i - 1) : t[k] # "\n"
    ELSE Len(t)

RECURSIVE splitlines(_)
splitlines(t) ==
    IF t = <<>> THEN <<>>
    ELSE <<SubSeq(t, 1, line_end(t))>> \o splitlines(SubSeq(t, line_end(t) + 1, Len(t)))

Lengths(lines) == [i \in 1..Len(lines) |-> Len(lines[i])]

\* f.readlines(hint) on lines of text, and what f has left.
readlines_text(lines, hint) == SubSeq(lines, 1, Len(readlines(Lengths(lines), hint)))
remaining_text(lines, hint) ==
    SubSeq(lines, Len(readlines_text(lines, hint)) + 1, Len(lines))

\* for line in chunked_data: upload_data += line
RECURSIVE join(_)
join(lines) == IF lines = <<>> THEN <<>> ELSE Head(lines) \o join(Tail(lines))

\* with open(file, 'rt') as f: chunked_data = f.readlines(self.chunk_size)
ContentOpen ==
    /\ cpc = "start"
    /\ chunk' = readlines_text(splitlines(decode(content)), chunk_size)
    /\ text' = remaining_text(splitlines(decode(content)), chunk_size)
    /\ cpc' = "loop"
    /\ UNCHANGED <<authVars, conn, conn_expire_time, clockVars, serverVars, oauthVars,
                   last_call, last_request, siteVars, uploadVars, taskVars, pollVars,
                   content, bodies>>

\* One pass of the loop: the PUT of chunk_num = Len(bodies), then the next
\* readlines.
ContentChunk ==
    /\ cpc = "loop"
    /\ chunk # <<>>
    /\ bodies' = Append(bodies, encode(join(chunk)))
    /\ chunk' = readlines_text(text, chunk_size)
    /\ text' = remaining_text(text, chunk_size)
    /\ UNCHANGED <<authVars, conn, conn_expire_time, clockVars, serverVars, oauthVars,
                   last_call, last_request, siteVars, uploadVars, taskVars, pollVars,
                   content, cpc>>

\* while chunked_data: the loop is left.
ContentDone ==
    /\ cpc = "loop"
    /\ chunk = <<>>
    /\ cpc' = "done"
    /\ UNCHANGED <<authVars, conn, conn_expire_time, clockVars, serverVars, oauthVars,
                   last_call, last_request, siteVars, uploadVars, taskVars, pollVars,
                   content, text, chunk, bodies>>

InitContent ==
    /\ via = "basic"
    /\ utc_offset = 0
    /\ now = 0
    /\ token = Bearer(1)
    /\ expires_at = Validity
    /\ issued = 1
    /\ recorded = [v \in 1..MaxTokens |-> IF v = 1 THEN Validity ELSE NoTime]
    /\ server_secret = 1
    /\ store = 1
    /\ environ = Unset
    /\ last_call = NoCall
    /\ last_request = NoRequest
    /\ conn = [made |-> TRUE, token_value |-> Bearer(1), expires_at |-> Validity,
               header |-> Bearer(1), task_header |-> Bearer(1),
               json_header |-> Bearer(1), file_header |-> Bearer(1)]
    /\ conn_expire_time = Validity
    /\ IdleSites
    /\ file = <<>>
    /\ chunk_size \in 1..MaxChunk
    /\ upc = "idle"
    /\ unread = <<>>
    /\ chunked_data = <<>>
    /\ chunk_num = 0
    /\ calls = <<>>
    /\ IdleTasks
    /\ IdlePoll
    /\ content \in Contents
    /\ text = <<>>
    /\ chunk = <<>>
    /\ bodies = <<>>
    /\ cpc = "start"

NextContent ==
    \/ ContentOpen
    \/ ContentChunk
    \/ ContentDone

SpecContent == InitContent /\ [][NextContent]_vars

----------------------------------------------------------------------------
\* Claims checked under SpecContent.

\* C24: the bodies of the chunk PUT calls of an upload, concatenated in the
\* order of their chunk index, are the content of the local file.
C24_BodiesAreTheFile == cpc = "done" => join(bodies) = content

====
